---- MODULE Spec2Model ----
(***************************************************************************)
(* Verification model of pipeline2app: the Version model                   *)
(* (pipeline2app/core/version.py), the batch build loop of the `make` CLI  *)
(* command (pipeline2app/core/cli.py) and the XNAT container-service       *)
(* command compiler (arcana/deploy/medimage/xnat.py).                      *)
(*                                                                         *)
(* Python strings are modelled as sequences of one-character strings so    *)
(* that matching, splitting, ordering and rendering are computed.          *)
(* A Python call result is a record [exc, val]: exc = "None" for a normal  *)
(* return of val, otherwise the name of the exception that was raised.     *)
(***************************************************************************)
EXTENDS Integers, Sequences, FiniteSets, TLC

(***************************************************************************)
(* Bounds of the model                                                     *)
(***************************************************************************)
\* largest integer used as a segment of a directly constructed release tuple
MaxSeg == 1
\* longest directly constructed release tuple
MaxTupleLen == 2
\* largest suffix number of a directly constructed Version
MaxSuffixNumber == 2
MaxBumps == 3
\* largest number of build specs in one batch given to make
MaxSpecs == 3
\* largest numbers of inputs, outputs and parameters of a compiled command
MaxInputs == 2
MaxOutputs == 2
MaxParams == 1

(***************************************************************************)
(* Python call results                                                     *)
(***************************************************************************)
Ret(v) == [exc |-> "None", val |-> v]

Raise(e) == [exc |-> e, val |-> 0]

(***************************************************************************)
(* Characters and strings                                                  *)
(***************************************************************************)
\* the characters that occur in the model's strings, in code point order
CharTable ==
  << "'", "-", ".", "/", "0", "1", "2", "3", "4", "5", "6", "7", "8", "9",
     "A", "B", "C", "D", "E", "F", "G", "H", "I", "J", "K", "L", "M", "N",
     "O", "P", "Q", "R", "S", "T", "U", "V", "W", "X", "Y", "Z", "[", "]",
     "_", "a", "b", "c", "d", "e", "f", "g", "h", "i", "j", "k", "l", "m",
     "n", "o", "p", "q", "r", "s", "t", "u", "v", "w", "x", "y", "z" >>

\* ord() of the characters of CharTable, position by position
CodeTable ==
  << 39, 45, 46, 47, 48, 49, 50, 51, 52, 53, 54, 55, 56, 57, 65, 66, 67,
     68, 69, 70, 71, 72, 73, 74, 75, 76, 77, 78, 79, 80, 81, 82, 83, 84,
     85, 86, 87, 88, 89, 90, 91, 93, 95, 97, 98, 99, 100, 101, 102, 103,
     104, 105, 106, 107, 108, 109, 110, 111, 112, 113, 114, 115, 116, 117,
     118, 119, 120, 121, 122 >>

Chars == {CharTable[i] : i \in DOMAIN CharTable}

\* ord(c)
Ord(c) == CodeTable[CHOOSE i \in DOMAIN CharTable : CharTable[i] = c]

\* chr(n)
Chr(n) == CharTable[CHOOSE i \in DOMAIN CodeTable : CodeTable[i] = n]

IsDigit(c) == Ord(c) \in 48..57

IsUpper(c) == Ord(c) \in 65..90

IsLower(c) == Ord(c) \in 97..122

\* the regular expression class [a-zA-Z0-9_]
IsWordChar(c) ==
  LET in_class(o) == o \in 48..57 \/ o \in 65..90 \/ o = 95 \/ o \in 97..122
  IN in_class(Ord(c))

\* str.lower() of one character (case folding used by re.IGNORECASE)
LowerChar(c) ==
  LET fold(o) == IF o \in 65..90 THEN Chr(o + 32) ELSE c
  IN fold(Ord(c))

LowerStr(s) == [i \in 1..Len(s) |-> LowerChar(s[i])]

\* str.upper()
UpperChar(c) ==
  LET fold(o) == IF o \in 97..122 THEN Chr(o - 32) ELSE c
  IN fold(Ord(c))

UpperStr(s) == [i \in 1..Len(s) |-> UpperChar(s[i])]

\* the sort key of one element of a str (its code point) or of a tuple of ints
ElemKey(x, isStr) == IF isStr THEN Ord(x) ELSE x

\* Python's < on two sequences (str or tuple), compared element by element
RECURSIVE SeqLess(_, _, _)
SeqLess(a, b, isStr) ==
  LET less(x, y) == IF x < y THEN TRUE
                    ELSE IF x > y THEN FALSE
                    ELSE SeqLess(Tail(a), Tail(b), isStr)
  IN IF Len(b) = 0 THEN FALSE
     ELSE IF Len(a) = 0 THEN TRUE
     ELSE less(ElemKey(Head(a), isStr), ElemKey(Head(b), isStr))

\* index of the first occurrence of c in s, Len(s)+1 when absent
FirstIndex(s, c) ==
  IF \E i \in 1..Len(s) : s[i] = c
  THEN CHOOSE i \in 1..Len(s) : s[i] = c /\ \A j \in 1..(i-1) : s[j] # c
  ELSE Len(s) + 1

\* s[from..to] (1-based, inclusive)
Slice(s, from, to) == SubSeq(s, from, to)

\* int(s) accepts decimal digits optionally grouped by single underscores
IsIntLiteral(s) ==
  /\ Len(s) > 0
  /\ \A i \in 1..Len(s) :
       /\ IsDigit(s[i]) \/ s[i] = "_"
       /\ i \in {1, Len(s)} => s[i] # "_"
       /\ i < Len(s) => ~(s[i] = "_" /\ s[i+1] = "_")

RECURSIVE IntOfAcc(_, _)
IntOfAcc(s, acc) ==
  IF Len(s) = 0 THEN acc
  ELSE IntOfAcc(Tail(s), IF Head(s) = "_" THEN acc
                         ELSE acc * 10 + (Ord(Head(s)) - 48))

IntOf(s) == IntOfAcc(s, 0)

\* str(n) for a non-negative integer
RECURSIVE StrOfNat(_)
StrOfNat(n) ==
  (IF n < 10 THEN <<>> ELSE StrOfNat(n \div 10)) \o <<Chr(48 + (n % 10))>>

\* sep.join(parts)
RECURSIVE Join(_, _)
Join(sep, parts) ==
  IF Len(parts) = 0 THEN <<>>
  ELSE IF Len(parts) = 1 THEN parts[1]
  ELSE parts[1] \o sep \o Join(sep, Tail(parts))

\* s.split(sep) for a one-character separator
RECURSIVE Split(_, _)
Split(s, sep) ==
  LET cut(i) == IF i > Len(s) THEN <<s>>
                ELSE <<Slice(s, 1, i - 1)>> \o Split(Slice(s, i + 1, Len(s)), sep)
  IN cut(FirstIndex(s, sep))

(***************************************************************************)
(* Version (pipeline2app/core/version.py)                                  *)
(***************************************************************************)
ALPHA == <<"a", "l", "p", "h", "a">>

BETA == <<"b", "e", "t", "a">>

RC == <<"r", "c">>

POST == <<"p", "o", "s", "t">>

SUFFIX_LABELS == <<ALPHA, BETA, RC, POST>>

\* Version.__init__: rtype is the Python type of release ("tuple" or "str")
Version(rtype, release, suffix_label, suffix_number) ==
  [rtype |-> rtype, release |-> release,
   suffix_label |-> suffix_label, suffix_number |-> suffix_number]

\* Version(text): the constructor called with one positional argument
VersionOfStr(text) == Version("str", text, <<>>, 0)

NoMatch == [matched |-> FALSE, release |-> <<>>, suffix_l |-> <<>>, suffix_n |-> <<>>]

\* a match whose optional suffix group did not take part
NoSuffix == [matched |-> TRUE, release |-> <<>>, suffix_l |-> <<>>, suffix_n |-> <<>>]

\* the suffix group -(alpha|beta|rc|post)([0-9]+)? matched against all of
\* tail (the text after the '-'), ignoring case
SuffixMatch(tail) ==
  LET fits(L) ==
        /\ Len(tail) >= Len(L)
        /\ LowerStr(Slice(tail, 1, Len(L))) = L
        /\ \A i \in (Len(L) + 1)..Len(tail) : IsDigit(tail[i])
      groups(n) ==
        [matched |-> TRUE, release |-> <<>>,
         suffix_l |-> Slice(tail, 1, n),
         suffix_n |-> Slice(tail, n + 1, Len(tail))]
      pick(fitting) ==
        IF fitting = {} THEN NoMatch
        ELSE groups(Len(SUFFIX_LABELS[CHOOSE i \in fitting : TRUE]))
  IN pick({i \in DOMAIN SUFFIX_LABELS : fits(SUFFIX_LABELS[i])})

\* version_re.match(text):
\*   ^v?(?P<release>[a-zA-Z0-9_]+)(-(?P<suffix_l>alpha|beta|rc|post)(?P<suffix_n>[0-9]+)?)?$
\* compiled with re.IGNORECASE. The release class holds neither '-' nor '.',
\* so the release ends at the first '-' or at the end of the text.
version_re(text) ==
  LET \* v? is greedy and is given back only when the release would be empty
      release(head) == IF Len(head) >= 2 /\ LowerChar(head[1]) = "v"
                       THEN Tail(head) ELSE head
      groups(head, suffix) ==
        IF /\ Len(head) >= 1
           /\ \A i \in 1..Len(head) : IsWordChar(head[i])
           /\ suffix.matched
        THEN [suffix EXCEPT !.release = release(head)]
        ELSE NoMatch
      at(d) == groups(Slice(text, 1, d - 1),
                      IF d > Len(text) THEN NoSuffix
                      ELSE SuffixMatch(Slice(text, d + 1, Len(text))))
  IN at(FirstIndex(text, "-"))

\* Version.parse
parse(version) ==
  LET suffix_number(suffix_n) == IF Len(suffix_n) > 0 THEN IntOf(suffix_n) ELSE 0
      build(match, parts, allInt) ==
        Version(IF allInt THEN "tuple" ELSE "str",
                IF allInt THEN [i \in 1..Len(parts) |-> IntOf(parts[i])]
                ELSE match.release,
                match.suffix_l,
                suffix_number(match.suffix_n))
      split(match, parts) ==
        build(match, parts, \A i \in 1..Len(parts) : IsIntLiteral(parts[i]))
      from(match) ==
        IF ~match.matched THEN Ret(VersionOfStr(version))
        ELSE IF /\ Len(match.suffix_l) > 0
                /\ \A i \in 1..Len(SUFFIX_LABELS) : SUFFIX_LABELS[i] # match.suffix_l
        THEN Raise("ValueError")
        ELSE Ret(split(match, Split(match.release, ".")))
  IN from(version_re(version))

\* list.index: position of x in lst, 0 when absent (the caller raises)
IndexOf(lst, x) ==
  IF \E i \in 1..Len(lst) : lst[i] = x
  THEN CHOOSE i \in 1..Len(lst) : lst[i] = x /\ \A j \in 1..(i-1) : lst[j] # x
  ELSE 0

\* self.release < other.release for two releases of the same Python type
ReleaseLess(a, b) == SeqLess(a.release, b.release, a.rtype = "str")

\* Version.compare, lines 53-67: equal releases
compare_suffixes(self, other) ==
  LET by_index(label_index, other_label_index) ==
        IF label_index = 0 \/ other_label_index = 0 THEN Raise("ValueError")
        ELSE IF label_index < other_label_index THEN Ret(-1)
        ELSE IF label_index > other_label_index THEN Ret(1)
        ELSE IF self.suffix_number < other.suffix_number THEN Ret(-1)
        ELSE IF self.suffix_number > other.suffix_number THEN Ret(1)
        ELSE Ret(0)
  IN IF self.suffix_label = POST /\ other.suffix_label # POST THEN Ret(1)
     ELSE IF self.suffix_label # POST /\ other.suffix_label = POST THEN Ret(-1)
     ELSE IF self.suffix_label # <<>> /\ other.suffix_label = <<>> THEN Ret(1)
     ELSE IF self.suffix_label = <<>> /\ other.suffix_label # <<>> THEN Ret(-1)
     ELSE by_index(IndexOf(SUFFIX_LABELS, self.suffix_label),
                   IndexOf(SUFFIX_LABELS, other.suffix_label))

\* Version.compare, lines 45-67: two releases of the same Python type
compare_same_type(self, other) ==
  IF ReleaseLess(self, other) THEN Ret(-1)
  ELSE IF ReleaseLess(other, self) THEN Ret(1)
  ELSE compare_suffixes(self, other)

\* compare with the release-type check written for one argument order only
\* and the other order falling back to comparing the rendered releases
compare_one_sided(self, other) ==
  IF self.rtype = "str" /\ other.rtype = "tuple" THEN Raise("ValueError")
  ELSE IF self.rtype # other.rtype THEN Ret(-1)
  ELSE compare_same_type(self, other)

\* Version.compare
compare(self, other) ==
  IF \/ (self.rtype = "str" /\ other.rtype = "tuple")
     \/ (self.rtype = "tuple" /\ other.rtype = "str")
  THEN Raise("ValueError")
  ELSE compare_same_type(self, other)

\* Version.__str__
VersionStr(self) ==
  (IF self.rtype = "tuple"
   THEN Join(<<".">>, [i \in 1..Len(self.release) |-> StrOfNat(self.release[i])])
   ELSE self.release) \o
  (IF self.suffix_label # <<>>
   THEN <<"-">> \o self.suffix_label \o StrOfNat(self.suffix_number)
   ELSE <<>>)

\* Version.__lt__
VersionLt(self, other) ==
  LET negative(c) == IF c.exc # "None" THEN c ELSE Ret(c.val < 0)
  IN negative(compare(self, other))

\* Version.__eq__(self, other); other is [kind |-> "Version", v |-> a Version],
\* [kind |-> "str", v |-> a string] or [kind |-> "object", v |-> anything].
\* other_version is bound only on the str branch, so the final line reads an
\* unbound local when other is a Version.
VersionEq(self, other) ==
  LET zero(c) == IF c.exc # "None" THEN c ELSE Ret(c.val = 0)
  IN IF other.kind = "str" THEN zero(compare(self, VersionOfStr(other.v)))
     ELSE IF other.kind # "Version" THEN Ret(FALSE)
     ELSE Raise("UnboundLocalError")

\* self.release == other (line 96): a tuple or a str compared with other.
\* A str equals a str by value; in every other case the left operand answers
\* NotImplemented and Python asks the right one: a Version runs its __eq__ on
\* the release, a str answers NotImplemented and the result is False.
ReleaseEq(self, other) ==
  IF other.kind = "Version"
  THEN VersionEq(other.v, [kind |-> IF self.rtype = "str" THEN "str" ELSE "object",
                           v |-> self.release])
  ELSE IF other.kind = "str" /\ self.rtype = "str" THEN Ret(self.release = other.v)
  ELSE Ret(FALSE)

\* Version.__ne__
VersionNe(self, other) ==
  LET negated(e) == IF e.exc # "None" THEN e ELSE Ret(~e.val)
  IN negated(ReleaseEq(self, other))

\* bump_postfix keeping the suffix number as it is
bump_postfix_same_number(self) ==
  Version(self.rtype, self.release,
          IF self.suffix_label # <<>> THEN self.suffix_label ELSE POST,
          self.suffix_number)

\* Version.bump_postfix
bump_postfix(self) ==
  Version(self.rtype, self.release,
          IF self.suffix_label # <<>> THEN self.suffix_label ELSE POST,
          self.suffix_number + 1)

\* sorted(versions): insertion into an ordered prefix using only __lt__;
\* the first exception raised by a comparison propagates
RECURSIVE InsertSorted(_, _)
InsertSorted(v, lst) ==
  LET after(rest) == IF rest.exc # "None" THEN rest
                     ELSE Ret(<<Head(lst.val)>> \o rest.val)
      place(lt) == IF lt.exc # "None" THEN lt
                   ELSE IF lt.val THEN Ret(<<v>> \o lst.val)
                   ELSE after(InsertSorted(v, Ret(Tail(lst.val))))
  IN IF lst.exc # "None" THEN lst
     ELSE IF Len(lst.val) = 0 THEN Ret(<<v>>)
     ELSE place(VersionLt(v, Head(lst.val)))

RECURSIVE sorted(_)
sorted(versions) ==
  IF Len(versions) = 0 THEN Ret(<<>>)
  ELSE InsertSorted(versions[Len(versions)],
                    sorted(SubSeq(versions, 1, Len(versions) - 1)))

(***************************************************************************)
(* State                                                                   *)
(***************************************************************************)
VARIABLES
  v_op,     \* Version: the operation applied ("input" before any)
  v_args,   \* Version: the arguments the operation is applied to
  v_ret,    \* Version: the call result [exc, val] of the operation
  v_aux,    \* Version: intermediate values of the operation
  opt,          \* make: the command-line flags
  registry,     \* make: state of the registry image at each spec's reference
  image_specs,  \* make: the list of specs (references) being processed
  pc,           \* make: position in the function
  idx,          \* make: index of the current spec in the current loop
  to_build,     \* make: specs the inspection selected for building
  conflicting,  \* make: references whose image differs, in insertion order
  errors,       \* make: the error flag
  manifest,     \* make: [defined, images, written]
  made,         \* make: references image_spec.make was called on, in order
  echoed,       \* make: references echoed to stdout after a successful build
  pushed,       \* make: references dc.api.push was called on, in order
  removed,      \* make: references whose image clean-up was started for
  failed,       \* make: references whose build or push raised
  outcome,      \* make: [status, exc, refs], how make ended
  c_op,     \* compiler: the operation applied ("input" before any)
  c_cmd,    \* compiler: the command specification given to the compiler
  c_ret,    \* compiler: the call result [exc, val] of the compilation
  c_built,  \* compiler: entries and argument fragments built when it ended
  i_op,     \* image: the operation applied ("input" before any)
  i_args,   \* image: the arguments the operation is applied to
  i_ret     \* image: the call result [exc, val] of the operation

versionVars == <<v_op, v_args, v_ret, v_aux>>

makeVars == <<opt, registry, image_specs, pc, idx, to_build, conflicting, errors,
              manifest, made, echoed, pushed, removed, failed, outcome>>

compileVars == <<c_op, c_cmd, c_ret, c_built>>

imageVars == <<i_op, i_args, i_ret>>

vars == <<v_op, v_args, v_ret, v_aux,
          opt, registry, image_specs, pc, idx, to_build, conflicting, errors,
          manifest, made, echoed, pushed, removed, failed, outcome,
          c_op, c_cmd, c_ret, c_built,
          i_op, i_args, i_ret>>

\* values of the variables of a component that a specification does not run
IdleVersion ==
  /\ v_op = "idle"
  /\ v_args = <<>>
  /\ v_ret = Ret(0)
  /\ v_aux = <<>>

IdleMake ==
  /\ opt = <<>>
  /\ registry = <<>>
  /\ image_specs = <<>>
  /\ pc = "idle"
  /\ idx = 0
  /\ to_build = <<>>
  /\ conflicting = <<>>
  /\ errors = FALSE
  /\ manifest = <<>>
  /\ made = <<>>
  /\ echoed = <<>>
  /\ pushed = <<>>
  /\ removed = <<>>
  /\ failed = {}
  /\ outcome = "idle"

IdleCompile ==
  /\ c_op = "idle"
  /\ c_cmd = <<>>
  /\ c_ret = Ret(0)
  /\ c_built = 0

IdleImage ==
  /\ i_op = "idle"
  /\ i_args = <<>>
  /\ i_ret = Ret(0)

(***************************************************************************)
(* Version: inputs                                                         *)
(***************************************************************************)
S10 == <<"1", ".", "0">>

\* VERSIONS of core/image/tests/test_image.py, in the expected order
VERSIONS ==
  << S10 \o <<"-">> \o ALPHA \o <<"0">>,
     S10 \o <<"-">> \o ALPHA \o <<"2">>,
     S10 \o <<"-">> \o BETA \o <<"0">>,
     S10 \o <<".", "0">>,
     S10 \o <<"-">> \o POST \o <<"1">>,
     S10 \o <<"-">> \o POST \o <<"2">>,
     <<"1", ".", "1", "-">> \o ALPHA >>

\* version strings given to Version.parse
VersionStrings ==
  {VERSIONS[i] : i \in 1..Len(VERSIONS)} \cup
  { <<"1">>, <<"2">>, <<"1", "0">>, <<"0", "1">>, <<"1", "_", "0">>,
    <<"v", "1">>, <<"V", "2">>, <<"v">>, <<"v", "v", "1">>, <<"v", "a">>,
    <<"a", "b", "c">>, <<"m", "a", "s", "t", "e", "r">>,
    <<"1", "-">> \o ALPHA, <<"1", "-">> \o ALPHA \o <<"0">>,
    <<"1", "-">> \o ALPHA \o <<"0", "2">>,
    <<"1", "-">> \o BETA \o <<"1">>, <<"1", "-">> \o RC \o <<"2">>,
    <<"1", "-">> \o POST \o <<"1">>, <<"2", "-">> \o POST \o <<"1", "0">>,
    <<"a", "b", "c", "-">> \o RC \o <<"1">>,
    <<"1", "-", "g", "a", "m", "m", "a", "1">>,
    <<"1", "-", "A", "L", "P", "H", "A", "1">>,
    <<"1", "-">> \o ALPHA \o <<"-", "1">>,
    <<"-">> \o ALPHA, <<>> }

\* release tuples of directly constructed Versions
RECURSIVE TuplesUpTo(_)
TuplesUpTo(n) ==
  IF n = 0 THEN {<<>>}
  ELSE LET shorter == TuplesUpTo(n - 1)
       IN shorter \cup {Append(t, k) : t \in {u \in shorter : Len(u) = n - 1},
                                       k \in 0..MaxSeg}

ReleaseTuples == {t \in TuplesUpTo(MaxTupleLen) : Len(t) >= 1}

ReleaseStrings == {<<"a", "b", "c">>, <<"m", "a", "s", "t", "e", "r">>, S10}

SuffixLabels == {<<>>, ALPHA, BETA, RC, POST}

\* Versions built by the constructor, by parse, or by bump_postfix
VersionObjects ==
  {Version("tuple", r, l, n) :
     r \in ReleaseTuples, l \in SuffixLabels, n \in 0..MaxSuffixNumber} \cup
  {Version("str", r, l, n) :
     r \in ReleaseStrings, l \in SuffixLabels, n \in 0..MaxSuffixNumber} \cup
  {p.val : p \in {q \in {parse(s) : s \in VersionStrings} : q.exc = "None"}}

\* the orderings of VERSIONS handed to sorted()
Shuffles == {[i \in 1..Len(VERSIONS) |-> VERSIONS[p[i]]] :
               p \in Permutations(1..Len(VERSIONS))}

InitVersion ==
  /\ v_op = "input"
  /\ \/ \E s \in VersionStrings : v_args = [kind |-> "str", a |-> s]
     \/ \E x, y \in VersionObjects :
          v_args = [kind |-> "pair", a |-> x, b |-> y]
     \/ \E l \in Shuffles : v_args = [kind |-> "list", a |-> l]
     \/ \E x \in VersionObjects, t \in VersionStrings :
          v_args = [kind |-> "vstr", a |-> x, b |-> t]
     \/ \E x \in VersionObjects :
          /\ x.suffix_label = <<>> => x.suffix_number = 0
          /\ v_args = [kind |-> "version", a |-> x]
  /\ v_ret = Ret(0)
  /\ v_aux = <<>>
  /\ IdleMake
  /\ IdleCompile
  /\ IdleImage

(***************************************************************************)
(* Version: operations                                                     *)
(***************************************************************************)
\* Version.parse(text)
DoParse ==
  /\ v_op = "input" /\ v_args.kind = "str"
  /\ v_op' = "parse"
  /\ v_ret' = parse(v_args.a)
  /\ UNCHANGED <<v_args, v_aux>>
  /\ UNCHANGED makeVars
  /\ UNCHANGED compileVars
  /\ UNCHANGED imageVars

\* a.compare(b)
DoCompare ==
  /\ v_op = "input" /\ v_args.kind = "pair"
  /\ v_op' = "compare"
  /\ v_ret' = compare(v_args.a, v_args.b)
  /\ UNCHANGED <<v_args, v_aux>>
  /\ UNCHANGED makeVars
  /\ UNCHANGED compileVars
  /\ UNCHANGED imageVars

\* Version.parse(str(Version.parse(v))) == Version.parse(v)
DoRoundTrip ==
  /\ v_op = "input" /\ v_args.kind = "str"
  /\ \E p \in {parse(v_args.a)} :
       /\ p.exc = "None"
       /\ \E q \in {parse(VersionStr(p.val))} :
            /\ v_aux' = <<p, q>>
            /\ v_ret' = IF q.exc # "None" THEN q
                        ELSE VersionEq(q.val, [kind |-> "Version", v |-> p.val])
  /\ v_op' = "roundtrip"
  /\ UNCHANGED v_args
  /\ UNCHANGED makeVars
  /\ UNCHANGED compileVars
  /\ UNCHANGED imageVars

\* sorted(Version.parse(v) for v in shuffled), test_sort_versions
DoSort ==
  /\ v_op = "input" /\ v_args.kind = "list"
  /\ \E parsed \in {[i \in 1..Len(v_args.a) |-> parse(v_args.a[i])]} :
       v_ret' = IF \E i \in 1..Len(parsed) : parsed[i].exc # "None"
                THEN Raise("ValueError")
                ELSE sorted([i \in 1..Len(parsed) |-> parsed[i].val])
  /\ v_op' = "sort"
  /\ UNCHANGED <<v_args, v_aux>>
  /\ UNCHANGED makeVars
  /\ UNCHANGED compileVars
  /\ UNCHANGED imageVars

\* a == b for two Versions
DoEq ==
  /\ v_op = "input" /\ v_args.kind = "pair"
  /\ v_op' = "eq"
  /\ v_ret' = VersionEq(v_args.a, [kind |-> "Version", v |-> v_args.b])
  /\ UNCHANGED <<v_args, v_aux>>
  /\ UNCHANGED makeVars
  /\ UNCHANGED compileVars
  /\ UNCHANGED imageVars

\* a == b for a Version a and a str b
DoEqStr ==
  /\ v_op = "input" /\ v_args.kind = "vstr"
  /\ v_op' = "eqstr"
  /\ v_ret' = VersionEq(v_args.a, [kind |-> "str", v |-> v_args.b])
  /\ UNCHANGED <<v_args, v_aux>>
  /\ UNCHANGED makeVars
  /\ UNCHANGED compileVars
  /\ UNCHANGED imageVars

\* a != b for two Versions
DoNe ==
  /\ v_op = "input" /\ v_args.kind = "pair"
  /\ v_op' = "ne"
  /\ v_ret' = VersionNe(v_args.a, [kind |-> "Version", v |-> v_args.b])
  /\ UNCHANGED <<v_args, v_aux>>
  /\ UNCHANGED makeVars
  /\ UNCHANGED compileVars
  /\ UNCHANGED imageVars

\* v = v.bump_postfix(), again and again; v_aux keeps the versions bumped
DoBump ==
  /\ v_op \in {"input", "bump"} /\ v_args.kind = "version"
  /\ Len(v_aux) < MaxBumps
  /\ v_op' = "bump"
  /\ \E v \in {IF v_op = "input" THEN v_args.a ELSE v_ret.val} :
       /\ v_ret' = Ret(bump_postfix(v))
       /\ v_aux' = Append(v_aux, v)
  /\ UNCHANGED v_args
  /\ UNCHANGED makeVars
  /\ UNCHANGED compileVars
  /\ UNCHANGED imageVars

NextVersion ==
  \/ DoParse
  \/ DoCompare
  \/ DoRoundTrip
  \/ DoSort
  \/ DoEq
  \/ DoEqStr
  \/ DoNe
  \/ DoBump

SpecVersion == InitVersion /\ [][NextVersion]_vars

(***************************************************************************)
(* make (pipeline2app/core/cli.py)                                         *)
(***************************************************************************)
\* what the registry holds at a spec's reference: no image ("absent"), an
\* image without an embedded spec ("nospec"), an image whose embedded spec
\* gives an empty diff ("identical") or a non-empty diff ("differing")
RegistryStates == {"absent", "nospec", "identical", "differing"}

Options ==
  [check_registry : BOOLEAN, raise_errors : BOOLEAN, push : BOOLEAN,
   clean_up : BOOLEAN, release : BOOLEAN, save_manifest : BOOLEAN,
   tag_latest : BOOLEAN]

Running == [status |-> "running", exc |-> "None", refs |-> <<>>]

Exited(code) == [status |-> code, exc |-> "None", refs |-> <<>>]

Raised(e, refs) == [status |-> "raised", exc |-> e, refs |-> refs]

\* the list [1, ..., k]
Refs(k) == [i \in 1..k |-> i]

InitMake ==
  /\ opt \in Options
  /\ \E k \in 0..MaxSpecs :
       /\ image_specs = Refs(k)
       /\ registry \in [1..k -> RegistryStates]
       /\ opt.check_registry \/ \A i \in 1..k : registry[i] = "absent"
  /\ pc = "start"
  /\ idx = 0
  /\ to_build = <<>>
  /\ conflicting = <<>>
  /\ errors = FALSE
  /\ manifest = [defined |-> FALSE, images |-> <<>>, written |-> FALSE]
  /\ made = <<>>
  /\ echoed = <<>>
  /\ pushed = <<>>
  /\ removed = <<>>
  /\ failed = {}
  /\ outcome = Running
  /\ IdleVersion
  /\ IdleCompile
  /\ IdleImage

\* keyword parameters of P2AImage.compare_specs(self, other, check_versions)
compare_specs_params == {"other", "check_versions"}

\* image_spec.compare_specs(built_spec, <kwarg>=True) for the image state reg:
\* a keyword that names no parameter is a TypeError, otherwise the diff
\* (the set of differing entries) is returned
compare_specs_call(kwarg, reg) ==
  IF kwarg \notin compare_specs_params THEN Raise("TypeError")
  ELSE Ret(IF reg = "identical" THEN {} ELSE {"values_changed"})

\* an exception leaves make
Propagate(e, refs) ==
  /\ outcome' = Raised(e, refs)
  /\ pc' = "done"

\* lines 359-367: the manifest and the error flag are set up and the build
\* loop is entered with the list specs
EnterBuildLoop(specs) ==
  /\ image_specs' = specs
  /\ manifest' = [defined |-> opt.release \/ opt.save_manifest,
                  images |-> <<>>, written |-> FALSE]
  /\ errors' = FALSE
  /\ idx' = 1
  /\ pc' = "build"
  /\ outcome' = outcome

\* lines 240-312: argument checks, loading of the specs
Start ==
  /\ pc = "start"
  /\ IF opt.tag_latest /\ ~opt.release
     THEN /\ Propagate("ValueError", <<>>)
          /\ UNCHANGED <<image_specs, manifest, errors, idx>>
     ELSE IF opt.check_registry
     THEN /\ pc' = "inspect"
          /\ idx' = 1
          /\ UNCHANGED <<image_specs, manifest, errors, outcome>>
     ELSE EnterBuildLoop(image_specs)
  /\ UNCHANGED <<opt, registry, to_build, conflicting, made, echoed, pushed, removed, failed>>
  /\ UNCHANGED versionVars
  /\ UNCHANGED compileVars
  /\ UNCHANGED imageVars

\* lines 315-343: one iteration of the registry inspection loop
InspectSpec ==
  /\ pc = "inspect"
  /\ idx <= Len(image_specs)
  /\ LET image_spec == image_specs[idx]
         extracted == registry[image_spec] \notin {"absent", "nospec"}
         changelog == compare_specs_call("check_version", registry[image_spec])
     IN IF ~extracted
        THEN /\ to_build' = Append(to_build, image_spec)
             /\ idx' = idx + 1
             /\ UNCHANGED <<conflicting, pc, outcome>>
        ELSE IF changelog.exc # "None"
        THEN /\ Propagate(changelog.exc, <<>>)
             /\ UNCHANGED <<to_build, conflicting, idx>>
        ELSE IF changelog.val = {}
        THEN /\ idx' = idx + 1
             /\ UNCHANGED <<to_build, conflicting, pc, outcome>>
        ELSE /\ conflicting' = Append(conflicting, image_spec)
             /\ idx' = idx + 1
             /\ UNCHANGED <<to_build, pc, outcome>>
  /\ UNCHANGED <<opt, registry, image_specs, errors, manifest, made, echoed, pushed,
                 removed, failed>>
  /\ UNCHANGED versionVars
  /\ UNCHANGED compileVars
  /\ UNCHANGED imageVars

\* lines 345-357: after the last spec was inspected
FinishInspection ==
  /\ pc = "inspect"
  /\ idx > Len(image_specs)
  /\ IF conflicting # <<>>
     THEN /\ Propagate("Pydra2AppBuildError", conflicting)
          /\ UNCHANGED <<image_specs, manifest, errors, idx>>
     ELSE EnterBuildLoop(to_build)
  /\ UNCHANGED <<opt, registry, to_build, conflicting, made, echoed, pushed, removed, failed>>
  /\ UNCHANGED versionVars
  /\ UNCHANGED compileVars
  /\ UNCHANGED imageVars

\* where the loop body goes after the build succeeded / after the push
AfterBuild == IF opt.push THEN "push" ELSE IF opt.clean_up THEN "cleanup" ELSE "append"

AfterPush == IF opt.clean_up THEN "cleanup" ELSE "append"

\* the success branch resetting the error flag for the next spec
BuildSucceeded_resets_flag ==
  /\ echoed' = Append(echoed, image_specs[idx])
  /\ pc' = AfterBuild
  /\ errors' = FALSE
  /\ UNCHANGED <<idx, failed, outcome>>

\* lines 392-394: the build of the current spec succeeded
BuildSucceeded ==
  /\ echoed' = Append(echoed, image_specs[idx])
  /\ pc' = AfterBuild
  /\ UNCHANGED <<idx, errors, failed, outcome>>

\* the except clause leaving the loop (break) instead of continuing
BuildFailed_breaks ==
  /\ failed' = failed \cup {image_specs[idx]}
  /\ IF opt.raise_errors
     THEN /\ Propagate("BuildError", <<image_specs[idx]>>)
          /\ UNCHANGED <<idx, errors>>
     ELSE /\ errors' = TRUE
          /\ pc' = "finish"
          /\ UNCHANGED <<idx, outcome>>
  /\ UNCHANGED echoed

\* the except clause logging the failure whatever raise_errors is
BuildFailed_always_logs ==
  /\ failed' = failed \cup {image_specs[idx]}
  /\ errors' = TRUE
  /\ idx' = idx + 1
  /\ UNCHANGED <<pc, outcome, echoed>>

\* lines 384-391: the build of the current spec raised
BuildFailed ==
  /\ failed' = failed \cup {image_specs[idx]}
  /\ IF opt.raise_errors
     THEN /\ Propagate("BuildError", <<image_specs[idx]>>)
          /\ UNCHANGED <<idx, errors>>
     ELSE /\ errors' = TRUE
          /\ idx' = idx + 1
          /\ UNCHANGED <<pc, outcome>>
  /\ UNCHANGED echoed

\* lines 369-394: image_spec.make of the current spec
Build ==
  /\ pc = "build"
  /\ idx <= Len(image_specs)
  /\ made' = Append(made, image_specs[idx])
  /\ \E ok \in BOOLEAN : IF ok THEN BuildSucceeded ELSE BuildFailed
  /\ UNCHANGED <<opt, registry, image_specs, to_build, conflicting, manifest,
                 pushed, removed>>
  /\ UNCHANGED versionVars
  /\ UNCHANGED compileVars
  /\ UNCHANGED imageVars

\* the except clause of the push going on to the next spec (continue)
Push_failure_continues ==
  /\ pc = "push"
  /\ pushed' = Append(pushed, image_specs[idx])
  /\ \E ok \in BOOLEAN :
       IF ok
       THEN /\ pc' = AfterPush
            /\ UNCHANGED <<idx, errors, failed, outcome>>
       ELSE /\ failed' = failed \cup {image_specs[idx]}
            /\ IF opt.raise_errors
               THEN /\ Propagate("PushError", <<image_specs[idx]>>)
                    /\ UNCHANGED <<idx, errors>>
               ELSE /\ errors' = TRUE
                    /\ idx' = idx + 1
                    /\ pc' = "build"
                    /\ UNCHANGED outcome
  /\ UNCHANGED <<opt, registry, image_specs, to_build, conflicting, manifest,
                 made, echoed, removed>>
  /\ UNCHANGED versionVars
  /\ UNCHANGED compileVars
  /\ UNCHANGED imageVars

\* lines 396-409: dc.api.push of the current spec
Push ==
  /\ pc = "push"
  /\ pushed' = Append(pushed, image_specs[idx])
  /\ \E ok \in BOOLEAN :
       IF ok
       THEN /\ pc' = AfterPush
            /\ UNCHANGED <<errors, failed, outcome>>
       ELSE /\ failed' = failed \cup {image_specs[idx]}
            /\ IF opt.raise_errors
               THEN /\ Propagate("PushError", <<image_specs[idx]>>)
                    /\ UNCHANGED errors
               ELSE /\ errors' = TRUE
                    /\ pc' = AfterPush
                    /\ UNCHANGED outcome
  /\ UNCHANGED <<opt, registry, image_specs, idx, to_build, conflicting, manifest,
                 made, echoed, removed>>
  /\ UNCHANGED versionVars
  /\ UNCHANGED compileVars
  /\ UNCHANGED imageVars

\* lines 410-431: removal of the image, its containers and its base image;
\* nothing catches an exception of the docker client here
CleanUp ==
  /\ pc = "cleanup"
  /\ removed' = Append(removed, image_specs[idx])
  /\ \E ok \in BOOLEAN :
       IF ok
       THEN /\ pc' = "append"
            /\ UNCHANGED outcome
       ELSE Propagate("CleanUpError", <<image_specs[idx]>>)
  /\ UNCHANGED <<opt, registry, image_specs, idx, to_build, conflicting, errors,
                 manifest, made, echoed, pushed, failed>>
  /\ UNCHANGED versionVars
  /\ UNCHANGED compileVars
  /\ UNCHANGED imageVars

\* lines 433-439: the manifest entry of the current spec, end of the loop body
AppendManifest ==
  /\ pc = "append"
  /\ manifest' = IF opt.release \/ opt.save_manifest
                 THEN [manifest EXCEPT !.images = Append(@, image_specs[idx])]
                 ELSE manifest
  /\ idx' = idx + 1
  /\ pc' = "build"
  /\ UNCHANGED <<opt, registry, image_specs, to_build, conflicting, errors,
                 made, echoed, pushed, removed, failed, outcome>>
  /\ UNCHANGED versionVars
  /\ UNCHANGED compileVars
  /\ UNCHANGED imageVars

\* lines 440-493: the release metapackage, its pushes, and the manifest file
\* (written inside the `if release:` block)
Release ==
  /\ pc = "build"
  /\ idx > Len(image_specs)
  /\ IF ~opt.release
     THEN /\ pc' = "finish"
          /\ UNCHANGED <<errors, manifest, outcome>>
     ELSE \E made_ok \in BOOLEAN, push_ok \in BOOLEAN, latest_ok \in BOOLEAN :
            LET push_failed == opt.push /\ ~push_ok
                latest_failed == opt.push /\ opt.tag_latest /\ ~latest_ok
            IN IF ~made_ok
               THEN /\ Propagate("MetapackageError", <<>>)
                    /\ UNCHANGED <<errors, manifest>>
               ELSE IF opt.raise_errors /\ (push_failed \/ latest_failed)
               THEN /\ Propagate("PushError", <<>>)
                    /\ UNCHANGED <<errors, manifest>>
               ELSE /\ errors' = (errors \/ push_failed \/ latest_failed)
                    /\ manifest' = [manifest EXCEPT !.written = opt.save_manifest]
                    /\ pc' = "finish"
                    /\ UNCHANGED outcome
  /\ UNCHANGED <<opt, registry, image_specs, idx, to_build, conflicting,
                 made, echoed, pushed, removed, failed>>
  /\ UNCHANGED versionVars
  /\ UNCHANGED compileVars
  /\ UNCHANGED imageVars

\* lines 495-511: export, removal of the temporary directory, exit status
Finish ==
  /\ pc = "finish"
  /\ outcome' = IF errors THEN Exited("exit1") ELSE Exited("exit0")
  /\ pc' = "done"
  /\ UNCHANGED <<opt, registry, image_specs, idx, to_build, conflicting, errors,
                 manifest, made, echoed, pushed, removed, failed>>
  /\ UNCHANGED versionVars
  /\ UNCHANGED compileVars
  /\ UNCHANGED imageVars

Next ==
  \/ Start
  \/ InspectSpec
  \/ FinishInspection
  \/ Build
  \/ Push
  \/ CleanUp
  \/ AppendManifest
  \/ Release
  \/ Finish

Spec == InitMake /\ [][Next]_vars

(***************************************************************************)
(* XNAT container-service command compiler                                 *)
(* (arcana/deploy/medimage/xnat.py)                                        *)
(***************************************************************************)
\* values of the format / type attributes: "File" and "Text" stand for data
\* format classes (which have class_name(), location() and ext), "str",
\* "int" and "bool" for the Python builtins
FormatClasses == {"File", "Text"}

\* format.ext of a data format class
Ext(format) == IF format = "Text" THEN <<"t", "x", "t">> ELSE <<>>

\* InputArg(path, format, pydra_field) after __post_init__
InputArgs ==
  { [path |-> <<"a">>, format |-> "File", pydra_field |-> <<"a">>],
    [path |-> <<"A">>, format |-> "Text", pydra_field |-> <<"A">>],
    [path |-> <<"i", "n", "/", "b">>, format |-> "str", pydra_field |-> <<"b">>],
    [path |-> <<"c">>, format |-> "int", pydra_field |-> <<"c">>] }

\* OutputArg(path, format, pydra_field) after __post_init__
OutputArgs ==
  { [path |-> <<"o">>, format |-> "File", pydra_field |-> <<"o">>],
    [path |-> <<"d", "/", "p">>, format |-> "Text", pydra_field |-> <<"p">>] }

\* an element of the parameters argument: a ParamArg instance ("ParamArg"),
\* a field name ("str") or a mapping of constructor keywords ("dict", with
\* or without a "default" key)
ParamSpecs ==
  { [form |-> "ParamArg", name |-> <<"a">>, type |-> "int",
     pydra_field |-> <<"a">>, required |-> TRUE, has_default |-> FALSE],
    [form |-> "ParamArg", name |-> <<"b">>, type |-> "str",
     pydra_field |-> <<"b">>, required |-> FALSE, has_default |-> FALSE],
    [form |-> "dict", name |-> <<"d">>, type |-> "int",
     pydra_field |-> <<"d">>, required |-> FALSE, has_default |-> TRUE],
    [form |-> "dict", name |-> <<"e">>, type |-> "bool",
     pydra_field |-> <<"e">>, required |-> TRUE, has_default |-> FALSE],
    [form |-> "str", name |-> <<"f">>, type |-> "str",
     pydra_field |-> <<"f">>, required |-> FALSE, has_default |-> FALSE] }

\* the frequency argument: members of the Clinical enumeration, or a name
\* that is no member ("bogus")
Frequencies == {"session", "dataset", "subject", "bogus"}

ClinicalMembers == {"session", "dataset", "subject"}

VALID_FREQUENCIES == {"session", "dataset"}

\* all sequences over S of length at most n
RECURSIVE SeqsUpTo(_, _)
SeqsUpTo(S, n) ==
  IF n = 0 THEN {<<>>}
  ELSE LET shorter == SeqsUpTo(S, n - 1)
       IN shorter \cup {Append(q, x) : q \in {r \in shorter : Len(r) = n - 1}, x \in S}

InitCompile ==
  /\ c_op = "input"
  /\ \E ins \in SeqsUpTo(InputArgs, MaxInputs),
        outs \in SeqsUpTo(OutputArgs, MaxOutputs),
        params \in SeqsUpTo(ParamSpecs, MaxParams),
        freq \in Frequencies :
       c_cmd = [inputs |-> ins, outputs |-> outs, parameters |-> params,
                frequency |-> freq]
  /\ c_ret = Ret(0)
  /\ c_built = 0
  /\ IdleVersion
  /\ IdleMake
  /\ IdleImage

COMMAND_INPUT_TYPES == [bool |-> "bool", str |-> "string", int |-> "number", float |-> "number"]

\* COMMAND_INPUT_TYPES.get(t, 'string')
InputType(t) == IF t \in DOMAIN COMMAND_INPUT_TYPES THEN COMMAND_INPUT_TYPES[t] ELSE "string"

\* path2xnatname: re.sub(r'[^a-zA-Z0-9_]+', '_', path)
RECURSIVE path2xnatname(_)
path2xnatname(path) ==
  IF Len(path) = 0 THEN <<>>
  ELSE IF IsWordChar(Head(path)) THEN <<Head(path)>> \o path2xnatname(Tail(path))
  ELSE IF Len(path) >= 2 /\ ~IsWordChar(path[2]) THEN path2xnatname(Tail(path))
  ELSE <<"_">> \o path2xnatname(Tail(path))

\* path2varname of a name that is already a valid identifier
path2varname(name) == name

\* f'[{field.upper()}_{kind}]'
ReplacementKey(field, kind) == <<"[">> \o UpperStr(field) \o <<"_">> \o kind \o <<"]">>

INPUT_KIND == <<"I", "N", "P", "U", "T">>

PARAM_KIND == <<"P", "A", "R", "A", "M">>

PROJECT_ID_KEY == <<"[", "P", "R", "O", "J", "E", "C", "T", "_", "I", "D", "]">>

SESSION_LABEL_KEY ==
  <<"[", "S", "E", "S", "S", "I", "O", "N", "_", "L", "A", "B", "E", "L", "]">>

\* lines 187-196: the ParamArg built from one element of parameters; the
\* dataclass has the fields name, type, pydra_field, required, description
ParsedParam(param) ==
  IF param.form = "str" THEN Raise("TypeError")
  ELSE IF param.form = "dict" /\ param.has_default THEN Raise("TypeError")
  ELSE Ret(param)

\* lines 203-220: the descriptor entry of one input; class_name() and
\* location() exist on data format classes only
InputEntry(inpt) ==
  IF inpt.format \notin FormatClasses THEN Raise("AttributeError")
  ELSE Ret([name |-> path2xnatname(inpt.path),
            type |-> InputType(inpt.format),
            default_value |-> "",
            required |-> TRUE,
            user_settable |-> TRUE,
            replacement_key |-> ReplacementKey(inpt.pydra_field, INPUT_KIND)])

\* lines 224-238: the descriptor entry of one parameter; ParamArg has no
\* attribute `default`
ParamEntry(param) ==
  IF ~param.required THEN Raise("AttributeError")
  ELSE Ret([name |-> path2varname(param.name),
            type |-> InputType(param.type),
            default_value |-> "",
            required |-> param.required,
            user_settable |-> TRUE,
            replacement_key |-> ReplacementKey(param.pydra_field, PARAM_KIND)])

\* lines 244-254: the outputs entry of one output
OutputEntry(output) ==
  IF output.format \notin FormatClasses THEN Raise("AttributeError")
  ELSE Ret([name |-> output.pydra_field,
            required |-> TRUE,
            mount |-> "out",
            path |-> output.path \o
                     (IF Ext(output.format) # <<>>
                      THEN <<".">> \o Ext(output.format) ELSE <<>>)])

\* the output handler accepting the output by its path
OutputHandler_by_path(output) ==
  [name |-> output.pydra_field \o <<"-", "r", "e", "s", "o", "u", "r", "c", "e">>,
   accepts_command_output |-> output.path,
   as_a_child_of |-> "SESSION",
   type |-> "Resource",
   label |-> Split(output.path, "/")[1]]

\* lines 255-262: the output handler of one output
OutputHandler(output) ==
  [name |-> output.pydra_field \o <<"-", "r", "e", "s", "o", "u", "r", "c", "e">>,
   accepts_command_output |-> output.pydra_field,
   as_a_child_of |-> "SESSION",
   type |-> "Resource",
   label |-> Split(output.path, "/")[1]]

\* lines 294-302
PROJECT_ID_ENTRY ==
  [name |-> <<"P", "R", "O", "J", "E", "C", "T", "_", "I", "D">>,
   type |-> "string", default_value |-> "", required |-> TRUE,
   user_settable |-> FALSE, replacement_key |-> PROJECT_ID_KEY]

\* lines 311-319
SESSION_LABEL_ENTRY ==
  [name |-> <<"S", "E", "S", "S", "I", "O", "N", "_", "L", "A", "B", "E", "L">>,
   type |-> "string", default_value |-> "", required |-> TRUE,
   user_settable |-> FALSE, replacement_key |-> SESSION_LABEL_KEY]

\* the first exception among the call results rs, "None" when there is none
FirstExc(rs) ==
  IF \E i \in 1..Len(rs) : rs[i].exc # "None"
  THEN rs[CHOOSE i \in 1..Len(rs) :
            rs[i].exc # "None" /\ \A j \in 1..(i-1) : rs[j].exc = "None"].exc
  ELSE "None"

\* position of the first exception among the call results rs, 0 when none
FirstExcIndex(rs) ==
  IF \E i \in 1..Len(rs) : rs[i].exc # "None"
  THEN CHOOSE i \in 1..Len(rs) :
         rs[i].exc # "None" /\ \A j \in 1..(i-1) : rs[j].exc = "None"
  ELSE 0

Vals(rs) == [i \in 1..Len(rs) |-> rs[i].val]

\* inputs_json without the always-present PROJECT_ID entry
inputs_json_no_project(input_entries, param_entries, frequency) ==
  input_entries \o param_entries \o
  (IF frequency = "session" THEN <<SESSION_LABEL_ENTRY>> ELSE <<>>)

\* the inputs list of the descriptor: lines 211, 229, 294 and 311 append to it
inputs_json(input_entries, param_entries, frequency) ==
  input_entries \o param_entries \o <<PROJECT_ID_ENTRY>> \o
  (IF frequency = "session" THEN <<SESSION_LABEL_ENTRY>> ELSE <<>>)

\* the command line without the --ids argument of line 321
cmdline_without_ids(inputs, outputs, params, frequency) ==
  <<[kind |-> "activate", key |-> <<>>, field |-> <<>>],
    [kind |-> "entrypoint", key |-> PROJECT_ID_KEY, field |-> <<>>]>> \o
  [i \in 1..Len(inputs) |->
     [kind |-> "input",
      key |-> ReplacementKey(inputs[i].pydra_field, INPUT_KIND),
      field |-> inputs[i].pydra_field]] \o
  [i \in 1..Len(outputs) |->
     [kind |-> "output", key |-> <<>>, field |-> outputs[i].pydra_field]] \o
  [i \in 1..Len(params) |->
     [kind |-> "parameter",
      key |-> ReplacementKey(params[i].pydra_field, PARAM_KIND),
      field |-> params[i].pydra_field]] \o
  <<[kind |-> "flags", key |-> <<>>, field |-> <<>>]>>

\* lines 277-289 and 321: the command line as the sequence of its fragments,
\* each with the replacement key it holds (<<>> when it holds none)
cmdline(inputs, outputs, params, frequency) ==
  <<[kind |-> "activate", key |-> <<>>, field |-> <<>>],
    [kind |-> "entrypoint", key |-> PROJECT_ID_KEY, field |-> <<>>]>> \o
  [i \in 1..Len(inputs) |->
     [kind |-> "input",
      key |-> ReplacementKey(inputs[i].pydra_field, INPUT_KIND),
      field |-> inputs[i].pydra_field]] \o
  [i \in 1..Len(outputs) |->
     [kind |-> "output", key |-> <<>>, field |-> outputs[i].pydra_field]] \o
  [i \in 1..Len(params) |->
     [kind |-> "parameter",
      key |-> ReplacementKey(params[i].pydra_field, PARAM_KIND),
      field |-> params[i].pydra_field]] \o
  <<[kind |-> "flags", key |-> <<>>, field |-> <<>>]>> \o
  (IF frequency = "session"
   THEN <<[kind |-> "ids", key |-> SESSION_LABEL_KEY, field |-> <<>>]>>
   ELSE <<>>)

\* lines 339-355
DERIVED_INPUTS ==
  <<[name |-> "__SESSION_LABEL__", derived_from_wrapper_input |-> "SESSION",
     provides_value_for_command_input |->
       <<"S", "E", "S", "S", "I", "O", "N", "_", "L", "A", "B", "E", "L">>],
    [name |-> "__PROJECT_ID__", derived_from_wrapper_input |-> "SESSION",
     provides_value_for_command_input |->
       <<"P", "R", "O", "J", "E", "C", "T", "_", "I", "D">>]>>

\* generate_xnat_cs_command
generate_xnat_cs_command(cmd) ==
  LET parsed == [i \in 1..Len(cmd.parameters) |-> ParsedParam(cmd.parameters[i])]
      input_rs == [i \in 1..Len(cmd.inputs) |-> InputEntry(cmd.inputs[i])]
      param_rs == [i \in 1..Len(parsed) |-> ParamEntry(parsed[i].val)]
      output_rs == [i \in 1..Len(cmd.outputs) |-> OutputEntry(cmd.outputs[i])]
  IN IF cmd.frequency \notin ClinicalMembers THEN Raise("KeyError")
     ELSE IF cmd.frequency \notin VALID_FREQUENCIES THEN Raise("ArcanaUsageError")
     ELSE IF FirstExc(parsed) # "None" THEN Raise(FirstExc(parsed))
     ELSE IF FirstExc(input_rs) # "None" THEN Raise(FirstExc(input_rs))
     ELSE IF FirstExc(param_rs) # "None" THEN Raise(FirstExc(param_rs))
     ELSE IF FirstExc(output_rs) # "None" THEN Raise(FirstExc(output_rs))
     ELSE IF cmd.frequency # "session" THEN Raise("NotImplementedError")
     ELSE Ret([command_line |-> cmdline(cmd.inputs, cmd.outputs, cmd.parameters,
                                        cmd.frequency),
               mounts |-> <<[name |-> "in", writable |-> FALSE],
                            [name |-> "out", writable |-> TRUE],
                            [name |-> "work", writable |-> TRUE]>>,
               inputs |-> inputs_json(Vals(input_rs), Vals(param_rs), cmd.frequency),
               outputs |-> Vals(output_rs),
               external_inputs |-> <<[name |-> "SESSION", type |-> "Session"]>>,
               derived_inputs |-> DERIVED_INPUTS,
               output_handlers |->
                 [i \in 1..Len(cmd.outputs) |-> OutputHandler(cmd.outputs[i])]])

\* the number of descriptor entries (appended to inputs_json or outputs_json)
\* and argument fragments (appended to input_args, param_args or output_args)
\* that exist when generate_xnat_cs_command returns or raises. An input of
\* format str gets its entry (line 211) before location() fails on line 220;
\* any other failing element raises before its entry is appended.
built_at_exit(cmd) ==
  LET N == Len(cmd.inputs)
      P == Len(cmd.parameters)
      M == Len(cmd.outputs)
      at_output(k) ==
        IF k # 0 THEN 2 * N + 2 * P + 2 * (k - 1)
        ELSE 2 * N + 2 * P + 2 * M + 1 + (IF cmd.frequency = "session" THEN 1 ELSE 0)
      at_param(k) ==
        IF k # 0 THEN 2 * N + 2 * (k - 1)
        ELSE at_output(FirstExcIndex(
               [i \in 1..M |-> OutputEntry(cmd.outputs[i])]))
      at_input(k) ==
        IF k # 0
        THEN 2 * (k - 1) + (IF cmd.inputs[k].format = "str" THEN 1 ELSE 0)
        ELSE at_param(FirstExcIndex(
               [i \in 1..P |-> ParamEntry(cmd.parameters[i])]))
      at_parse(k) ==
        IF k # 0 THEN 0
        ELSE at_input(FirstExcIndex(
               [i \in 1..N |-> InputEntry(cmd.inputs[i])]))
  IN IF cmd.frequency \notin VALID_FREQUENCIES THEN 0
     ELSE at_parse(FirstExcIndex(
            [i \in 1..P |-> ParsedParam(cmd.parameters[i])]))

\* generate_xnat_cs_command(**cmd_spec)
Compile ==
  /\ c_op = "input"
  /\ c_op' = "compile"
  /\ c_ret' = generate_xnat_cs_command(c_cmd)
  /\ c_built' = built_at_exit(c_cmd)
  /\ UNCHANGED c_cmd
  /\ UNCHANGED versionVars
  /\ UNCHANGED makeVars
  /\ UNCHANGED imageVars

NextCompile == Compile

SpecCompile == InitCompile /\ [][NextCompile]_vars

(***************************************************************************)
(* Image specs (pipeline2app/core/image/base.py)                           *)
(***************************************************************************)
\* longest resources list of a build spec
MaxResources == 2

\* largest number of answers the registry gives to one registry_tags call
MaxLicenses == 2
MaxRequests == 3

\* __version__ of the pipeline2app package that runs the comparison
p2a_version == "1"

\* the attributes attrs.asdict serialises: P2AImage declares no
\* pipeline2app_version, its subclass App does (app.py line 81)
AttrsOf(cls) ==
  IF cls = "App"
  THEN {"name", "version", "org", "resources", "pipeline2app_version"}
  ELSE {"name", "version", "org", "resources"}

\* the attributes that hold a list
ListAttrs == {"resources"}

\* resources lists, with reorderings and repetitions
RECURSIVE ListsUpTo(_, _)
ListsUpTo(S, n) ==
  IF n = 0 THEN {<<>>}
  ELSE {<<>>} \cup {<<x>> \o q : x \in S, q \in ListsUpTo(S, n - 1)}

\* build specs: None and '' are both written "" (both are falsy); for a
\* P2AImage the pipeline2app_version field is not an attribute
ImageSpecs ==
  {[cls |-> c, name |-> n, version |-> v, org |-> o, resources |-> r,
    pipeline2app_version |-> p] :
     c \in {"P2AImage"}, n \in {"a", "b"}, v \in {"1", "2"}, o \in {"", "o"},
     r \in ListsUpTo({"r", "s"}, MaxResources), p \in {""}} \cup
  {[cls |-> c, name |-> n, version |-> v, org |-> o, resources |-> r,
    pipeline2app_version |-> p] :
     c \in {"App"}, n \in {"a", "b"}, v \in {"1", "2"}, o \in {"", "o"},
     r \in ListsUpTo({"r", "s"}, MaxResources), p \in {"", "0", "1"}}

\* P2AImage.asdict: the serialised attributes of the spec
asdict(spec) == [k \in AttrsOf(spec.cls) |-> spec[k]]

\* bool(v) of the value v of attribute k
Truthy(k, v) == IF k \in ListAttrs THEN Len(v) > 0 ELSE v # ""

\* prep, lines 838-850: falsy values are dropped (no attribute of these
\* classes is a bool or has a name starting with '_'), then the version keys
\* are defaulted or deleted; del of a key that is not there is a KeyError
prep(s, check_versions) ==
  LET with(kept) ==
        IF check_versions
        THEN Ret([k \in kept \cup {"pipeline2app_version"} |->
                    IF k \in kept THEN s[k] ELSE p2a_version])
        ELSE IF "pipeline2app_version" \notin kept THEN Raise("KeyError")
        ELSE IF "version" \notin kept THEN Raise("KeyError")
        ELSE Ret([k \in kept \ {"pipeline2app_version", "version"} |-> s[k]])
  IN with({k \in DOMAIN s : Truthy(k, s[k])})

\* the items of a list as DeepDiff(ignore_order=True) compares them: neither
\* their order nor their repetition counts
ItemSet(q) == {q[i] : i \in DOMAIN q}

\* DeepDiff(t1, t2, ignore_order=True) of two dictionaries: the set of
\* reported changes, each with the key it is about
DeepDiff(t1, t2) ==
  {<<"dictionary_item_removed", k>> : k \in DOMAIN t1 \ DOMAIN t2} \cup
  {<<"dictionary_item_added", k>> : k \in DOMAIN t2 \ DOMAIN t1} \cup
  {<<"values_changed", k>> :
     k \in {j \in DOMAIN t1 \cap DOMAIN t2 :
              IF j \in ListAttrs THEN ItemSet(t1[j]) # ItemSet(t2[j])
              ELSE t1[j] # t2[j]}}

\* P2AImage.compare_specs
compare_specs(self, other, check_versions) ==
  LET diff(p1, p2) == IF p1.exc # "None" THEN p1
                      ELSE IF p2.exc # "None" THEN p2
                      ELSE Ret(DeepDiff(p1.val, p2.val))
  IN diff(prep(asdict(self), check_versions), prep(asdict(other), check_versions))

DOCKER_HUB == "docker.io"

GITHUB_CONTAINER_REGISTRY == "ghcr.io"

Registries == {DOCKER_HUB, GITHUB_CONTAINER_REGISTRY, "localhost:5000"}

\* an answer of the registry: its status code and the tags its body lists
Responses == [status : {200, 404, 500}, tags : {<<>>, <<"1">>}]

\* response.raise_for_status()
raise_for_status(status) ==
  IF status >= 400 /\ status < 600 THEN Raise("HTTPError") ELSE Ret(0)

\* lines 164-174: the pages of Docker Hub; data["next"] is a URL as long as
\* the registry has a further answer
RECURSIVE docker_hub_tags(_, _)
docker_hub_tags(responses, tags) ==
  IF Len(responses) = 0 THEN Ret(tags)
  ELSE IF Head(responses).status = 404 THEN Ret(<<>>)
  ELSE IF Head(responses).status # 200
  THEN raise_for_status(Head(responses).status)
  ELSE docker_hub_tags(Tail(responses), tags \o Head(responses).tags)

\* lines 176-191: the token request, then the tags list request
ghcr_tags(responses) ==
  IF responses[1].status = 404 THEN Ret(<<>>)
  ELSE IF responses[1].status # 200 THEN raise_for_status(responses[1].status)
  ELSE IF responses[2].status # 200 THEN raise_for_status(responses[2].status)
  ELSE Ret(responses[2].tags)

\* lines 193-200: the tags list request of any other registry
other_tags(responses) ==
  IF responses[1].status = 404 THEN Ret(<<>>)
  ELSE IF responses[1].status # 200 THEN raise_for_status(responses[1].status)
  ELSE Ret(responses[1].tags)

\* P2AImage.registry_tags, the registry answering with responses in turn
registry_tags(reg, responses) ==
  IF reg = DOCKER_HUB THEN docker_hub_tags(responses, <<>>)
  ELSE IF reg = GITHUB_CONTAINER_REGISTRY THEN ghcr_tags(responses)
  ELSE other_tags(responses)

\* the number of requests.get calls registry_tags makes
requests_made(reg, responses) ==
  IF reg = DOCKER_HUB
  THEN IF \A i \in 1..Len(responses) : responses[i].status = 200
       THEN Len(responses)
       ELSE CHOOSE i \in 1..Len(responses) :
              /\ responses[i].status # 200
              /\ \A j \in 1..(i-1) : responses[j].status = 200
  ELSE IF reg = GITHUB_CONTAINER_REGISTRY
  THEN IF responses[1].status = 200 THEN 2 ELSE 1
  ELSE 1

\* the registry attribute of a spec left at its default, DOCKER_HUB
DOCKER_HUB_NAME == <<"d", "o", "c", "k", "e", "r", ".", "i", "o">>

\* the specs whose reference is taken: registry, org (<<>> for None or ''),
\* name, and the version as converted by Version.parse
ReferenceSpecs ==
  [registry : {DOCKER_HUB_NAME, <<"g", "h", "c", "r", ".", "i", "o">>,
               <<"R", "e", "g", ".", "i", "o">>},
   org : {<<>>, <<"o", "r", "g">>, <<"O", "r", "g">>},
   name : {<<"a", "p", "p">>, <<"A", "p", "p">>},
   version : {parse(t).val :
                t \in {<<"1">>, <<"v", "2">>, <<"1", "-", "p", "o", "s", "t", "1">>,
                       <<"1", ".", "0">>, <<"A", "B", "C">>}}]

\* P2AImage.tag
tag(spec) == VersionStr(spec.version)

\* path without the lower-casing of line 105
path_keeps_case(spec) ==
  (IF spec.registry # DOCKER_HUB_NAME THEN spec.registry \o <<"/">> ELSE <<>>) \o
  (IF spec.org # <<>> THEN spec.org \o <<"/">> ELSE <<>>) \o
  spec.name

\* P2AImage.path
path(spec) ==
  LowerStr((IF spec.registry # DOCKER_HUB_NAME THEN spec.registry \o <<"/">>
            ELSE <<>>) \o
           (IF spec.org # <<>> THEN spec.org \o <<"/">> ELSE <<>>) \o
           spec.name)

\* P2AImage.reference
reference(spec) == path(spec) \o <<":">> \o tag(spec)

\* the licenses of a loaded spec: lic.name, lic.store_in_image, and
\* lic.source, either left as the spec document gave it or a path looked up
\* in license_paths
LicenseNames == {"l1", "l2"}

Licenses ==
  [name : LicenseNames, store_in_image : BOOLEAN,
   source : [origin : {"None", "spec"}, name : {"-"}]]

\* the license_paths and licenses_to_download arguments of App.load:
\* the names they hold, or None (not given)
NameSets == [given : BOOLEAN, names : SUBSET LicenseNames]

\* license_paths[lic.name]
LicensePath(name) == [origin |-> "license_paths", name |-> name]

\* App.load, lines 318-319: the store_in_image flag after the override
StoreInImage(lic, licenses_to_download) ==
  IF /\ licenses_to_download.given /\ licenses_to_download.names # {}
     /\ lic.name \in licenses_to_download.names
  THEN FALSE ELSE lic.store_in_image

\* App.load, lines 317-326: one turn of the loop over image.licenses
LoadLicense(lic, license_paths, licenses_to_download) ==
  IF StoreInImage(lic, licenses_to_download)
  THEN IF lic.name \in license_paths.names
       THEN Ret([lic EXCEPT !.source = LicensePath(lic.name)])
       ELSE Raise("RuntimeError")
  ELSE Ret([lic EXCEPT !.store_in_image = FALSE])

\* App.load, lines 314-329: the licenses of the returned image
load(licenses, license_paths, licenses_to_download) ==
  IF ~license_paths.given THEN Ret(licenses)
  ELSE IF \E i \in 1..Len(licenses) :
            LoadLicense(licenses[i], license_paths, licenses_to_download).exc # "None"
       THEN Raise("RuntimeError")
       ELSE Ret([i \in 1..Len(licenses) |->
                   LoadLicense(licenses[i], license_paths, licenses_to_download).val])

\* the configuration attribute of a command field: a bool, or a dict from
\* some configuration keys to values ({} is the default, factory=dict)
ConfigKeys == {"argstr", "name"}

Configurations ==
  [isdict : {FALSE}, flag : BOOLEAN, map : [{} -> {"x"}]] \cup
  {[isdict |-> TRUE, flag |-> FALSE, map |-> m] :
     m \in UNION {[K -> {"x", "y"}] : K \in SUBSET ConfigKeys}}

\* the command fields whose config_dict is taken
CommandFields == [name : {"n"}, datatype : {"File", "Text"}, configuration : Configurations]

\* bool(configuration): a bool is itself, a dict is true unless empty
ConfigTruthy(configuration) ==
  IF configuration.isdict THEN DOMAIN configuration.map # {} ELSE configuration.flag

\* dict.update
Update(config, other) ==
  [k \in DOMAIN config \cup DOMAIN other |->
     IF k \in DOMAIN other THEN other[k] ELSE config[k]]

\* CommandField.config_dict
config_dict(self) ==
  IF ConfigTruthy(self.configuration)
  THEN IF self.configuration.isdict
       THEN Update([k \in {"name", "datatype"} |->
                      IF k = "name" THEN self.name ELSE self.datatype],
                   self.configuration.map)
       ELSE [k \in {"name", "datatype"} |->
               IF k = "name" THEN self.name ELSE self.datatype]
  ELSE [k \in {} |-> "x"]

InitImage ==
  /\ i_op = "input"
  /\ \/ \E a, b \in ImageSpecs, cv \in BOOLEAN :
          i_args = [kind |-> "specs", a |-> a, b |-> b, check_versions |-> cv]
     \/ \E reg \in Registries, rs \in SeqsUpTo(Responses, MaxRequests) :
          /\ Len(rs) >= (IF reg = GITHUB_CONTAINER_REGISTRY THEN 2 ELSE 1)
          /\ i_args = [kind |-> "registry", registry |-> reg, responses |-> rs]
     \/ \E spec \in ReferenceSpecs : i_args = [kind |-> "reference", spec |-> spec]
     \/ \E f \in CommandFields : i_args = [kind |-> "field", field |-> f]
     \/ \E ls \in ListsUpTo(Licenses, MaxLicenses), lp \in NameSets, ld \in NameSets :
          /\ ~lp.given => lp.names = {}
          /\ ~ld.given => ld.names = {}
          /\ i_args = [kind |-> "load", licenses |-> ls, license_paths |-> lp,
                       licenses_to_download |-> ld]
  /\ i_ret = Ret(0)
  /\ IdleVersion
  /\ IdleMake
  /\ IdleCompile

\* self.compare_specs(other, check_versions=...)
DoCompareSpecs ==
  /\ i_op = "input" /\ i_args.kind = "specs"
  /\ i_op' = "compare_specs"
  /\ i_ret' = compare_specs(i_args.a, i_args.b, i_args.check_versions)
  /\ UNCHANGED i_args
  /\ UNCHANGED versionVars
  /\ UNCHANGED makeVars
  /\ UNCHANGED compileVars

\* self.registry_tags()
DoRegistryTags ==
  /\ i_op = "input" /\ i_args.kind = "registry"
  /\ i_op' = "registry_tags"
  /\ i_ret' = registry_tags(i_args.registry, i_args.responses)
  /\ UNCHANGED i_args
  /\ UNCHANGED versionVars
  /\ UNCHANGED makeVars
  /\ UNCHANGED compileVars

\* image_spec.reference
DoReference ==
  /\ i_op = "input" /\ i_args.kind = "reference"
  /\ i_op' = "reference"
  /\ i_ret' = Ret(reference(i_args.spec))
  /\ UNCHANGED i_args
  /\ UNCHANGED versionVars
  /\ UNCHANGED makeVars
  /\ UNCHANGED compileVars

\* App.load(yml, license_paths=..., licenses_to_download=...)
DoLoad ==
  /\ i_op = "input" /\ i_args.kind = "load"
  /\ i_op' = "load"
  /\ i_ret' = load(i_args.licenses, i_args.license_paths, i_args.licenses_to_download)
  /\ UNCHANGED i_args
  /\ UNCHANGED versionVars
  /\ UNCHANGED makeVars
  /\ UNCHANGED compileVars

\* field.config_dict
DoConfigDict ==
  /\ i_op = "input" /\ i_args.kind = "field"
  /\ i_op' = "config_dict"
  /\ i_ret' = Ret(config_dict(i_args.field))
  /\ UNCHANGED i_args
  /\ UNCHANGED versionVars
  /\ UNCHANGED makeVars
  /\ UNCHANGED compileVars

NextImage ==
  \/ DoCompareSpecs
  \/ DoRegistryTags
  \/ DoReference
  \/ DoLoad
  \/ DoConfigDict

SpecImage == InitImage /\ [][NextImage]_vars

(***************************************************************************)
(* Properties of make                                                      *)
(***************************************************************************)
Elems(q) == {q[i] : i \in 1..Len(q)}

IsPrefix(p, q) == Len(p) <= Len(q) /\ p = SubSeq(q, 1, Len(p))

\* the registry inspection ran to its end (or was cut short by an exception)
InspectionOver ==
  /\ opt.check_registry
  /\ pc \notin {"start", "inspect"}
  /\ outcome.exc # "ValueError"

\* C1: with registry checking, every spec of the batch is classified by the
\* state of its registry image: Build (in to_build) when there is no image or
\* no embedded spec, Skip (in neither list) when the diff is empty, Conflict
\* (in conflicting) when the diff is non-empty; only Build specs are made and
\* a Skip spec is never built or pushed.
C1_RegistryClassification ==
  InspectionOver =>
    \A r \in DOMAIN registry :
      /\ registry[r] \in {"absent", "nospec"} =>
           r \in Elems(to_build) /\ r \notin Elems(conflicting)
      /\ registry[r] = "identical" =>
           /\ r \notin Elems(to_build) /\ r \notin Elems(conflicting)
           /\ r \notin Elems(made) /\ r \notin Elems(pushed)
      /\ registry[r] = "differing" =>
           r \in Elems(conflicting) /\ r \notin Elems(to_build)
      /\ r \in Elems(made) => r \in Elems(to_build)

\* C2: with registry checking, a conflict does not abort the inspection: when
\* one or more specs conflict, make ends with a single build error naming
\* every conflicting reference, and nothing of the batch is built or pushed.
C2_ConflictsReportedTogether ==
  (InspectionOver /\ pc = "done" /\ \E r \in DOMAIN registry : registry[r] = "differing") =>
    /\ outcome.status = "raised"
    /\ outcome.exc = "Pydra2AppBuildError"
    /\ Elems(outcome.refs) = {r \in DOMAIN registry : registry[r] = "differing"}
    /\ made = <<>>
    /\ pushed = <<>>

\* the build loop was left by reaching the end of the list
LoopCompleted ==
  \/ pc = "finish"
  \/ pc = "done" /\ outcome.status \in {"exit0", "exit1"}
  \/ pc = "done" /\ outcome.exc = "MetapackageError"

\* C3: without --raise-errors a failing build or push is caught and recorded
\* and every later spec is still attempted: make is called on the specs in
\* list order, and on all of them once the loop is left, whatever subset of
\* the builds and pushes failed.
C3_FailureDoesNotStopBatch ==
  ~opt.raise_errors =>
    /\ outcome.exc \notin {"BuildError", "PushError"}
    /\ failed # {} => errors
    /\ IsPrefix(made, image_specs)
    /\ LoopCompleted => made = image_specs

\* the first spec of a longer batch failed and the whole batch was attempted
C3_Witness ==
  /\ ~opt.raise_errors
  /\ pc = "finish"
  /\ Len(image_specs) >= 2
  /\ image_specs[1] \in failed
  /\ made = image_specs

\* C4: with --raise-errors the first failing build or push leaves make as an
\* exception at once: the failing spec is the last one built, no later spec
\* is built or pushed, and the error flag is not what records the failure.
C4_FailFastPropagates ==
  (opt.raise_errors /\ failed # {}) =>
    /\ pc = "done"
    /\ outcome.status = "raised"
    /\ outcome.exc \in {"BuildError", "PushError"}
    /\ ~errors
    /\ failed = {made[Len(made)]}
    /\ outcome.refs = <<made[Len(made)]>>
    /\ IsPrefix(made, image_specs)
    /\ IsPrefix(pushed, made)

\* the first spec of a longer batch failed under --raise-errors
C4_Witness ==
  /\ opt.raise_errors
  /\ Len(image_specs) >= 2
  /\ failed = {image_specs[1]}
  /\ outcome.status = "raised"
  /\ made = <<image_specs[1]>>

\* C5: without --raise-errors, once the build or push of a spec failed the
\* error flag stays set, make never ends with exit status 0, and it ends with
\* exit status 1 only after every spec was processed.
C5_ErrorFlagSticks ==
  /\ [](~opt.raise_errors /\ failed # {} => errors)
  /\ []((pc = "done" /\ failed # {}) => outcome.status # "exit0")
  /\ [](outcome.status = "exit1" => made = image_specs)
  /\ [][errors => errors']_vars

\* the first spec failed, every later one succeeded, make exited with 1
C5_Witness ==
  /\ ~opt.raise_errors
  /\ outcome.status = "exit1"
  /\ Len(image_specs) >= 2
  /\ failed = {image_specs[1]}
  /\ made = image_specs

\* C20: with clean-up enabled and without --raise-errors, a failure while
\* removing the image or containers of one spec does not propagate out of
\* make, and every spec of the batch is still built.
C20_CleanUpBestEffort ==
  (opt.clean_up /\ ~opt.raise_errors) =>
    /\ outcome.exc # "CleanUpError"
    /\ (pc = "done" /\ removed # <<>>) => made = image_specs

\* C24: when --save-manifest is given and make runs to its exit, the
\* manifest file has been written, whatever the other flags are.
C24_ManifestSaved ==
  (opt.save_manifest /\ pc = "done" /\ outcome.status \in {"exit0", "exit1"}) =>
    manifest.written

\* the build loop ran through every spec of the batch
LoopEnded ==
  \/ pc = "build" /\ idx > Len(image_specs)
  \/ LoopCompleted

\* C25: without --raise-errors, a spec whose build failed is never pushed,
\* never cleaned up and has no manifest entry; the manifest lists specs whose
\* build succeeded, in the order they were built and once each, and at the
\* end of the loop it lists all of them, those whose push failed included.
C25_ManifestListsBuiltSpecs ==
  (~opt.raise_errors /\ manifest.defined) =>
    /\ \A x \in Elems(made) \ Elems(echoed) :
         x \notin Elems(pushed) \cup Elems(removed) \cup Elems(manifest.images)
    /\ IsPrefix(manifest.images, echoed)
    /\ echoed = SelectSeq(made, LAMBDA x : x \in Elems(echoed))
    /\ LoopEnded => manifest.images = echoed

\* of three specs the first failed to build and the second failed to push:
\* the manifest lists the second and the third
C25_Witness ==
  /\ ~opt.raise_errors
  /\ manifest.defined
  /\ pc = "finish"
  /\ made = <<1, 2, 3>>
  /\ echoed = <<2, 3>>
  /\ pushed = <<2, 3>>
  /\ failed = {1, 2}
  /\ manifest.images = <<2, 3>>

(***************************************************************************)
(* Properties of Version                                                   *)
(***************************************************************************)
\* the order the specification gives to suffixes of one release
ClaimedRank(label) ==
  CASE label = ALPHA -> 1
    [] label = BETA -> 2
    [] label = RC -> 3
    [] label = <<>> -> 4
    [] label = POST -> 5

ClaimedSuffixOrder(a, b) ==
  LET ra == ClaimedRank(a.suffix_label)
      rb == ClaimedRank(b.suffix_label)
      na == IF a.suffix_label = <<>> THEN 0 ELSE a.suffix_number
      nb == IF b.suffix_label = <<>> THEN 0 ELSE b.suffix_number
  IN IF ra < rb THEN -1
     ELSE IF ra > rb THEN 1
     ELSE IF na < nb THEN -1
     ELSE IF na > nb THEN 1
     ELSE 0

\* C6: for two versions of equal release compare orders the suffixes
\* alpha < beta < rc < unsuffixed < post, the suffix number breaking ties,
\* and sorting any permutation of the parsed test versions gives them in the
\* order 1.0-alpha0, 1.0-alpha2, 1.0-beta0, 1.0.0, 1.0-post1, 1.0-post2,
\* 1.1-alpha.
C6_PreFinalPostOrder ==
  /\ (/\ v_op = "compare"
      /\ v_args.a.rtype = v_args.b.rtype
      /\ v_args.a.release = v_args.b.release)
       => v_ret = Ret(ClaimedSuffixOrder(v_args.a, v_args.b))
  /\ v_op = "sort" =>
       /\ v_ret.exc = "None"
       /\ [i \in 1..Len(v_ret.val) |-> VersionStr(v_ret.val[i])] = VERSIONS

\* C7: for two Versions whose releases have the same type compare returns
\* -1, 0 or 1 without raising, and 0 when release, suffix label and suffix
\* number are all equal.
C7_CompareTotalOnSameType ==
  (v_op = "compare" /\ v_args.a.rtype = v_args.b.rtype) =>
    /\ v_ret.exc = "None"
    /\ v_ret.val \in {-1, 0, 1}
    /\ v_args.a = v_args.b => v_ret.val = 0

\* C8: for every version string that parses,
\* Version.parse(str(Version.parse(v))) == Version.parse(v) evaluates to true.
C8_RoundTrip ==
  v_op = "roundtrip" => v_ret = Ret(TRUE)

\* C9: comparing a tuple-release Version with a string-release Version
\* raises, in both argument orders and for all suffixes.
C9_MixedCompareRaises ==
  (v_op = "compare" /\ v_args.a.rtype # v_args.b.rtype) => v_ret.exc # "None"

\* a suffixed tuple release was compared with a string release
C9_Witness ==
  /\ v_op = "compare"
  /\ v_args.a.rtype = "tuple"
  /\ v_args.b.rtype = "str"
  /\ v_args.a.suffix_label = POST
  /\ v_ret.exc = "ValueError"

\* the text after the first '-' of a version string, without the digits at
\* its end: the suffix label the string carries
SuffixLabelOf(text) ==
  LET label(t) ==
        SubSeq(t, 1, CHOOSE n \in 0..Len(t) :
                       /\ n = 0 \/ ~IsDigit(t[n])
                       /\ \A i \in (n + 1)..Len(t) : IsDigit(t[i]))
  IN label(Slice(text, FirstIndex(text, "-") + 1, Len(text)))

\* the string has a '-' followed by a label other than alpha, beta, rc, post
UnknownSuffix(text) ==
  /\ FirstIndex(text, "-") <= Len(text)
  /\ SuffixLabelOf(text) \notin {ALPHA, BETA, RC, POST}

\* C15: Version.parse raises for every version string whose suffix label is
\* not one of alpha, beta, rc, post; it never returns a Version for it.
C15_UnknownSuffixRejected ==
  (v_op = "parse" /\ UnknownSuffix(v_args.a)) => v_ret.exc # "None"

\* the '.'-separated segments of the release part of a version string (the
\* text before the first '-', without the optional leading v)
ReleaseSegments(text) ==
  LET strip(head) == IF Len(head) >= 2 /\ LowerChar(head[1]) = "v"
                     THEN Tail(head) ELSE head
  IN Split(strip(Slice(text, 1, FirstIndex(text, "-") - 1)), ".")

\* C16: for a version string with no suffix or a known one, Version.parse
\* returns the release as the tuple of the integers of its '.'-separated
\* segments when every segment is numeric, and as a string only when some
\* segment is not numeric (numeric: accepted by int()).
C16_ReleaseSplitOnDots ==
  (v_op = "parse" /\ ~UnknownSuffix(v_args.a)) =>
    \E segs \in {ReleaseSegments(v_args.a)} :
      IF \A i \in 1..Len(segs) : IsIntLiteral(segs[i])
      THEN /\ v_ret.exc = "None"
           /\ v_ret.val.rtype = "tuple"
           /\ v_ret.val.release = [i \in 1..Len(segs) |-> IntOf(segs[i])]
      ELSE v_ret.exc = "None" => v_ret.val.rtype = "str"

\* C26: a != b is the negation of a == b for all Versions a and b: it
\* returns a truth value, the opposite of the one a == b returns, and v != v
\* is false.
C26_NeNegatesEq ==
  v_op = "ne" =>
    /\ v_ret.exc = "None"
    /\ \A eq \in {VersionEq(v_args.a, [kind |-> "Version", v |-> v_args.b])} :
         eq.exc = "None" => v_ret.val = ~eq.val
    /\ v_args.a = v_args.b => v_ret.val = FALSE

\* C27: bump_postfix returns a Version with the release of v that compare
\* puts strictly after v: post1 for an unsuffixed v, the same label with the
\* number increased by one for a suffixed v; v is left as it was, and the
\* versions of a chain of bumps are strictly increasing.
C27_BumpPostfixIncreases ==
  v_op = "bump" =>
    /\ v_aux[1] = v_args.a
    /\ \A v \in {v_aux[Len(v_aux)]} :
         /\ v_ret.val.rtype = v.rtype /\ v_ret.val.release = v.release
         /\ compare(v_ret.val, v) = Ret(1)
         /\ compare(v, v_ret.val) = Ret(-1)
         /\ v.suffix_label = <<>> =>
              v_ret.val.suffix_label = POST /\ v_ret.val.suffix_number = 1
         /\ v.suffix_label # <<>> =>
              /\ v_ret.val.suffix_label = v.suffix_label
              /\ v_ret.val.suffix_number = v.suffix_number + 1
    /\ \A i, j \in 1..Len(v_aux) : i < j => compare(v_aux[i], v_aux[j]) = Ret(-1)

\* an unsuffixed version was bumped to post1 and then to post2
C27_Witness ==
  /\ v_op = "bump"
  /\ Len(v_aux) = 2
  /\ v_aux[1].suffix_label = <<>>
  /\ v_aux[2].suffix_label = POST /\ v_aux[2].suffix_number = 1
  /\ v_ret.val.suffix_label = POST /\ v_ret.val.suffix_number = 2

\* C17: v == w for two Versions returns, without raising, whether
\* compare(v, w) is 0; v == s for a string s returns the same boolean as
\* v == Version.parse(s).
C17_EqualityParsesStrings ==
  /\ v_op = "eq" =>
       /\ v_ret.exc = "None"
       /\ v_ret.val = (compare(v_args.a, v_args.b) = Ret(0))
  /\ v_op = "eqstr" =>
       \E w \in {parse(v_args.b)} :
         /\ v_ret.exc = "None"
         /\ v_ret.val = (w.exc = "None" /\ compare(v_args.a, w.val) = Ret(0))

(***************************************************************************)
(* Properties of the command compiler                                      *)
(***************************************************************************)
Compiled == c_op = "compile" /\ c_ret.exc = "None"

\* C10 as stated: a compiled session command with N inputs, M outputs and P
\* parameters has N+M+P+2 entries in inputs and M entries in outputs.
C10_DescriptorCounts ==
  Compiled =>
    /\ Len(c_ret.val.inputs) =
         Len(c_cmd.inputs) + Len(c_cmd.outputs) + Len(c_cmd.parameters) + 2
    /\ Len(c_ret.val.outputs) = Len(c_cmd.outputs)

\* C10 amended: every descriptor compiled from a session command with N
\* inputs, M outputs and P parameters has N+P+2 entries in inputs (outputs
\* add none) and M entries in outputs.
C10_DescriptorCountsAmended ==
  Compiled =>
    /\ c_cmd.frequency = "session"
    /\ Len(c_ret.val.inputs) = Len(c_cmd.inputs) + Len(c_cmd.parameters) + 2
    /\ Len(c_ret.val.outputs) = Len(c_cmd.outputs)

\* a command with inputs, outputs and a parameter was compiled
C10_Witness ==
  /\ Compiled
  /\ Len(c_cmd.inputs) >= 1
  /\ Len(c_cmd.outputs) >= 1
  /\ Len(c_cmd.parameters) >= 1

\* the command of the end-to-end scenario: session frequency, two file
\* inputs, one file output, one integer parameter that declares a default
EndToEndCommand(cmd) ==
  /\ cmd.frequency = "session"
  /\ Len(cmd.inputs) = 2
  /\ \A i \in 1..2 : cmd.inputs[i].format \in FormatClasses
  /\ Len(cmd.outputs) = 1
  /\ cmd.outputs[1].format \in FormatClasses
  /\ Len(cmd.parameters) = 1
  /\ cmd.parameters[1].type = "int"
  /\ cmd.parameters[1].has_default

\* C11: compiling a session command with two file inputs, one file output
\* and one integer parameter with a default succeeds; its command line holds
\* in this order the activation preamble, the entrypoint, the two input
\* fragments in declaration order, the output fragment, the parameter
\* fragment and the fixed flags; and its inputs list has exactly 5 entries.
C11_EndToEndScenario ==
  (c_op = "compile" /\ EndToEndCommand(c_cmd)) =>
    /\ c_ret.exc = "None"
    /\ [i \in 1..7 |-> c_ret.val.command_line[i].kind] =
         <<"activate", "entrypoint", "input", "input", "output", "parameter",
           "flags">>
    /\ \A i \in 1..2 :
         c_ret.val.command_line[2 + i].field = c_cmd.inputs[i].pydra_field
    /\ Len(c_ret.val.inputs) = 5

\* C12: compiling a command whose frequency is not session fails, and fails
\* before any input entry, output entry or argument fragment is built.
C12_NonSessionFailsFirst ==
  (c_op = "compile" /\ c_cmd.frequency # "session") =>
    /\ c_ret.exc # "None"
    /\ c_built = 0

\* what the claim takes to be a parameter's declared default
DeclaredDefault(param) == IF param.has_default THEN "2" ELSE ""

\* C18: a command whose frequency, inputs and outputs are valid compiles, and
\* the inputs entry of each of its parameters carries the parameter's own
\* required flag, its declared default as default-value and the type given
\* by the scalar lookup table.
C18_ParameterEntries ==
  (/\ c_op = "compile"
   /\ c_cmd.frequency = "session"
   /\ \A i \in 1..Len(c_cmd.inputs) : c_cmd.inputs[i].format \in FormatClasses
   /\ \A i \in 1..Len(c_cmd.outputs) : c_cmd.outputs[i].format \in FormatClasses)
    => /\ c_ret.exc = "None"
       /\ \A i \in 1..Len(c_cmd.parameters) :
            /\ c_ret.val.inputs[Len(c_cmd.inputs) + i].required =
                 c_cmd.parameters[i].required
            /\ c_ret.val.inputs[Len(c_cmd.inputs) + i].default_value =
                 DeclaredDefault(c_cmd.parameters[i])
            /\ c_ret.val.inputs[Len(c_cmd.inputs) + i].type =
                 InputType(c_cmd.parameters[i].type)

(***************************************************************************)
(* Properties of image specs                                               *)
(***************************************************************************)
\* C13: compare_specs of a spec against itself returns an empty diff without
\* raising, for every spec and for both values of check_versions.
C13_SelfCompareEmpty ==
  (i_op = "compare_specs" /\ i_args.a = i_args.b) => i_ret = Ret({})

\* two specs of one class that differ in attribute k and in no other
DiffersOnlyIn(a, b, k) ==
  /\ a.cls = b.cls
  /\ k \in AttrsOf(a.cls)
  /\ a[k] # b[k]
  /\ \A j \in AttrsOf(a.cls) \ {k} : a[j] = b[j]

\* C14: two specs that differ only in version, or only in
\* pipeline2app_version, have an empty diff with check_versions=False and a
\* non-empty one with check_versions=True; two specs that differ only in
\* another field, non-empty in both, have a non-empty diff under both.
C14_VersionDriftIgnored ==
  i_op = "compare_specs" =>
    /\ \A k \in {"version", "pipeline2app_version"} :
         DiffersOnlyIn(i_args.a, i_args.b, k) =>
           IF i_args.check_versions
           THEN i_ret.exc = "None" /\ i_ret.val # {}
           ELSE i_ret = Ret({})
    /\ \A k \in {"name", "org", "resources"} :
         (/\ DiffersOnlyIn(i_args.a, i_args.b, k)
          /\ Truthy(k, i_args.a[k])
          /\ Truthy(k, i_args.b[k]))
           => i_ret.exc = "None" /\ i_ret.val # {}

\* C19: registry_tags returns the empty list, and raises nothing, whenever
\* one of the requests it made was answered with 404 (not found), for every
\* registry.
C19_NotFoundGivesNoTags ==
  (/\ i_op = "registry_tags"
   /\ \E i \in 1..requests_made(i_args.registry, i_args.responses) :
        i_args.responses[i].status = 404)
    => i_ret = Ret(<<>>)

\* C21 as stated: the reference of every spec is registry/org/name:tag in
\* lower case, tag being the string form of the version.
C21_ReferenceFormat ==
  i_op = "reference" =>
    i_ret.val = LowerStr(i_args.spec.registry \o <<"/">> \o i_args.spec.org \o
                         <<"/">> \o i_args.spec.name) \o <<":">> \o
                LowerStr(VersionStr(i_args.spec.version))

\* the text of a reference before its last ':' and the text after it
BeforeColon(ref) ==
  SubSeq(ref, 1, (CHOOSE i \in 1..Len(ref) :
                    ref[i] = ":" /\ \A j \in (i + 1)..Len(ref) : ref[j] # ":") - 1)

AfterColon(ref) ==
  SubSeq(ref, (CHOOSE i \in 1..Len(ref) :
                 ref[i] = ":" /\ \A j \in (i + 1)..Len(ref) : ref[j] # ":") + 1,
         Len(ref))

\* C21 amended: the reference is path:tag; tag is the string form of the
\* version with its letter case kept; path is the lower-cased join with '/'
\* of the registry (left out when it is Docker Hub), the org (left out when
\* empty) and the name, so it has no upper-case letter; specs equal in
\* registry, org, name and version have the same reference.
C21_ReferenceFormatAmended ==
  i_op = "reference" =>
    /\ AfterColon(i_ret.val) = VersionStr(i_args.spec.version)
    /\ \A i \in 1..Len(BeforeColon(i_ret.val)) : ~IsUpper(BeforeColon(i_ret.val)[i])
    /\ Split(BeforeColon(i_ret.val), "/") =
         (IF i_args.spec.registry = DOCKER_HUB_NAME THEN <<>>
          ELSE <<LowerStr(i_args.spec.registry)>>) \o
         (IF i_args.spec.org = <<>> THEN <<>> ELSE <<LowerStr(i_args.spec.org)>>) \o
         <<LowerStr(i_args.spec.name)>>
    /\ \A other \in ReferenceSpecs :
         other = i_args.spec => reference(other) = i_ret.val

\* the reference of a spec on Docker Hub, with an org and with capitals in
\* its name and in its version was taken
C21_Witness ==
  /\ i_op = "reference"
  /\ i_args.spec.registry = DOCKER_HUB_NAME
  /\ i_args.spec.org = <<"O", "r", "g">>
  /\ i_args.spec.name = <<"A", "p", "p">>
  /\ i_args.spec.version.release = <<"A", "B", "C">>
  /\ i_ret.val = <<"o", "r", "g", "/", "a", "p", "p", ":", "A", "B", "C">>

\* C22: when load is given license_paths, it raises if some license of the
\* spec has no entry in license_paths and is not listed in
\* licenses_to_download, and after a successful load every license still
\* marked store_in_image has license_paths[name] as its source.
C22_LicensesAccountedFor ==
  (i_op = "load" /\ i_args.license_paths.given) =>
    /\ (\E i \in 1..Len(i_args.licenses) :
          /\ i_args.licenses[i].name \notin i_args.license_paths.names
          /\ i_args.licenses[i].name \notin i_args.licenses_to_download.names)
       => i_ret.exc # "None"
    /\ i_ret.exc = "None" =>
         \A i \in 1..Len(i_ret.val) :
           i_ret.val[i].store_in_image =>
             i_ret.val[i].source = LicensePath(i_ret.val[i].name)

\* C23: the config_dict of a command field is empty exactly when its
\* configuration is False; for every mapping configuration, the empty one
\* included, it has the keys name and datatype and every key of the mapping
\* with the mapping's value.
C23_ConfigDictContents ==
  i_op = "config_dict" =>
    /\ (DOMAIN i_ret.val = {}) <=>
         (~i_args.field.configuration.isdict /\ ~i_args.field.configuration.flag)
    /\ i_args.field.configuration.isdict =>
         /\ {"name", "datatype"} \subseteq DOMAIN i_ret.val
         /\ \A k \in DOMAIN i_args.field.configuration.map :
              k \in DOMAIN i_ret.val /\ i_ret.val[k] = i_args.field.configuration.map[k]

\* the pipeline field names of the inputs and parameters of a command
FieldNames(cmd) ==
  [i \in 1..Len(cmd.inputs) |-> cmd.inputs[i].pydra_field] \o
  [i \in 1..Len(cmd.parameters) |-> cmd.parameters[i].pydra_field]

\* C28: in a descriptor compiled from a command whose inputs and parameters
\* have pairwise distinct pipeline field names, no two entries of the inputs
\* list have the same replacement key.
C28_ReplacementKeysDistinct ==
  (Compiled /\ \A i, j \in 1..Len(FieldNames(c_cmd)) :
                 i # j => FieldNames(c_cmd)[i] # FieldNames(c_cmd)[j]) =>
    \A i, j \in 1..Len(c_ret.val.inputs) :
      i # j => c_ret.val.inputs[i].replacement_key # c_ret.val.inputs[j].replacement_key

\* C29: in a compiled descriptor the replacement key of every entry of the
\* inputs list, those of PROJECT_ID and SESSION_LABEL included, occurs in the
\* command line.
C29_KeysOccurInCommandLine ==
  Compiled =>
    \A i \in 1..Len(c_ret.val.inputs) :
      \E j \in 1..Len(c_ret.val.command_line) :
        c_ret.val.command_line[j].key = c_ret.val.inputs[i].replacement_key

\* a command with an input and a parameter was compiled: its inputs list
\* has their two entries and those of PROJECT_ID and SESSION_LABEL
C29_Witness ==
  /\ Compiled
  /\ Len(c_cmd.inputs) = 1
  /\ Len(c_cmd.parameters) = 1
  /\ Len(c_ret.val.inputs) = 4
  /\ c_ret.val.inputs[4].replacement_key = SESSION_LABEL_KEY
  /\ c_ret.val.command_line[Len(c_ret.val.command_line)].kind = "ids"

\* C30: in a compiled descriptor every derived input provides its value to
\* an entry of inputs that is not user-settable and derives it from an
\* external input, every output handler accepts an entry of outputs, and the
\* mount of every entry of outputs is a declared writable mount.
C30_NameReferencesResolve ==
  Compiled =>
    /\ \A i \in 1..Len(c_ret.val.derived_inputs) :
         /\ \E j \in 1..Len(c_ret.val.inputs) :
              /\ c_ret.val.inputs[j].name =
                   c_ret.val.derived_inputs[i].provides_value_for_command_input
              /\ ~c_ret.val.inputs[j].user_settable
         /\ \E j \in 1..Len(c_ret.val.external_inputs) :
              c_ret.val.external_inputs[j].name =
                c_ret.val.derived_inputs[i].derived_from_wrapper_input
    /\ \A i \in 1..Len(c_ret.val.output_handlers) :
         \E j \in 1..Len(c_ret.val.outputs) :
           c_ret.val.outputs[j].name = c_ret.val.output_handlers[i].accepts_command_output
    /\ \A i \in 1..Len(c_ret.val.outputs) :
         \E j \in 1..Len(c_ret.val.mounts) :
           /\ c_ret.val.mounts[j].name = c_ret.val.outputs[i].mount
           /\ c_ret.val.mounts[j].writable

\* a command with two outputs, one of them at a path that differs from its
\* field name, was compiled
C30_Witness ==
  /\ Compiled
  /\ Len(c_ret.val.outputs) = 2
  /\ Len(c_ret.val.output_handlers) = 2
  /\ Len(c_ret.val.derived_inputs) = 2
  /\ \E i \in 1..2 : c_cmd.outputs[i].path # c_cmd.outputs[i].pydra_field

====
